---- MODULE Spec2Model ----
(***************************************************************************)
(* A model of the boykisser crate: the asset macros of src/lib.rs          *)
(* (include_binary_asset!, include_text_asset!, create_asset_registry!),   *)
(* the hand-written `images` module, and the pure helpers of `utils`       *)
(* (to_base64, mime_type_from_extension, create_data_url).                 *)
(*                                                                         *)
(* Strings that the code indexes or concatenates are sequences of          *)
(* one-character strings; byte slices are sequences of 0..255.             *)
(* Identifiers (macro $name fragments) are TLA+ strings.                   *)
(***************************************************************************)
EXTENDS Integers, Sequences, FiniteSets, TLC

VARIABLES
    fs,          \* the build machine's files: path -> [readable, bytes]
    toolchain,   \* [constAlloc]: does rustc accept the allocating vec! in a const fn
    phase,       \* "source" (not yet compiled) | "built" | "failed"
    binSpecs,    \* the binary list handed to create_asset_registry!
    textSpecs,   \* the text list handed to create_asset_registry!
    errors,      \* the compile errors of the build
    module,      \* the registry module's statics: identifier -> value
    ret,         \* what the last accessor call returned
    listed,      \* every value the listing functions have returned so far
    data,        \* utils: the byte slice argument
    mime_type,   \* utils: the mime_type argument of create_data_url
    ext,         \* utils: the ext argument of mime_type_from_extension
    out          \* utils: the value the last utils call returned

vars == <<fs, toolchain, phase, binSpecs, textSpecs, errors, module, ret, listed,
          data, mime_type, ext, out>>

regVars == <<fs, toolchain, phase, binSpecs, textSpecs, errors, module, ret, listed>>
utilVars == <<data, mime_type, ext, out>>

(***************************************************************************)
(* Bounds of the model.                                                    *)
(***************************************************************************)
MaxAssets == 2      \* specs in one create_asset_registry! call, both lists together
MaxLen == 5         \* length of the byte slices given to to_base64
MaxUrlLen == 4      \* length of the byte slices given to create_data_url
MaxExtLen == 2      \* length of the free-form extensions given to the MIME lookup

\* The sequences over S of length at most n.
SeqsUpTo(S, n) == UNION {[1..k -> S] : k \in 0..n}

\* The elements of a sequence.
Range(s) == {s[i] : i \in 1..Len(s)}

(***************************************************************************)
(* The build environment: files that include_bytes! / include_str! read.   *)
(***************************************************************************)
Paths == {"p1", "p2"}

\* A missing (or unreadable) file, an empty file, a UTF-8 text with one
\* two-byte character ("H", U+00E9), and bytes that are no UTF-8 text.
FileChoices ==
    { [readable |-> FALSE, bytes |-> <<>>],
      [readable |-> TRUE,  bytes |-> <<>>],
      [readable |-> TRUE,  bytes |-> <<72, 195, 169>>],
      [readable |-> TRUE,  bytes |-> <<72, 255>>] }

\* The identifiers the model declares assets under.  "A_INFO" is there because
\* paste! forms the metadata identifier of A by appending _INFO.
Names == {"A", "B", "A_INFO"}

\* The binary specs ($bin_name, $bin_path, $bin_format, $bin_desc) and the text
\* specs ($text_name, $text_path, $text_desc) a declaration is made of.
BinSpec ==
    [name : Names, path : Paths, format : {"PNG"}, desc : {"icon"}]
    \cup {[name |-> "B", path |-> "p1", format |-> "SVG", desc |-> "logo"]}

TextSpec ==
    [name : Names, path : Paths, desc : {"banner"}]
    \cup {[name |-> "B", path |-> "p2", desc |-> "readme"]}

\* str::from_utf8 as include_str! applies it: the well-formed byte sequences
\* of UTF-8 (one to four bytes per scalar value, no overlong forms, no
\* surrogates, nothing above U+10FFFF).
IsCont(b) == b >= 128 /\ b <= 191

RECURSIVE Utf8Valid(_)
Utf8Valid(b) ==
    IF Len(b) = 0 THEN TRUE
    ELSE LET c == b[1] IN
         IF c < 128 THEN Utf8Valid(Tail(b))
         ELSE IF c >= 194 /\ c <= 223
              THEN Len(b) >= 2 /\ IsCont(b[2]) /\ Utf8Valid(SubSeq(b, 3, Len(b)))
         ELSE IF c >= 224 /\ c <= 239
              THEN /\ Len(b) >= 3
                   /\ IsCont(b[2]) /\ IsCont(b[3])
                   /\ (c = 224 => b[2] >= 160)
                   /\ (c = 237 => b[2] <= 159)
                   /\ Utf8Valid(SubSeq(b, 4, Len(b)))
         ELSE IF c >= 240 /\ c <= 244
              THEN /\ Len(b) >= 4
                   /\ IsCont(b[2]) /\ IsCont(b[3]) /\ IsCont(b[4])
                   /\ (c = 240 => b[2] >= 144)
                   /\ (c = 244 => b[2] <= 143)
                   /\ Utf8Valid(SubSeq(b, 5, Len(b)))
         ELSE FALSE

\* include_bytes! that yields an empty slice where the file cannot be read.
include_bytes_OrEmpty(files, path) ==
    IF files[path].readable
    THEN [ok |-> TRUE, value |-> files[path].bytes]
    ELSE [ok |-> TRUE, value |-> <<>>]

\* include_bytes!($path): the file's bytes, or a compile error.
include_bytes(files, path) ==
    IF files[path].readable
    THEN [ok |-> TRUE, value |-> files[path].bytes]
    ELSE [ok |-> FALSE, value |-> <<>>]

\* include_str!($path): the file's bytes as text, or a compile error when the
\* file cannot be read or is not UTF-8.
include_str(files, path) ==
    IF files[path].readable /\ Utf8Valid(files[path].bytes)
    THEN [ok |-> TRUE, value |-> files[path].bytes]
    ELSE [ok |-> FALSE, value |-> <<>>]

\* paste!'s [<$name _INFO>].
InfoIdent(name) == name \o "_INFO"

(***************************************************************************)
(* The macros.  An expansion is a sequence of items of one Rust module,    *)
(* each [ident, kind, value], in the order the macro writes them.          *)
(***************************************************************************)

\* include_binary_asset! whose size is a literal written by the declarer (the
\* length of the 8-byte placeholder of `images`) instead of $name.len().
include_binary_asset_LiteralSize(files, name, path, format, desc) ==
    LET content == include_bytes(files, path) IN
    [ ok    |-> content.ok,
      items |-> << [ident |-> name, kind |-> "bytes", value |-> content.value],
                   [ident |-> InfoIdent(name), kind |-> "AssetInfo",
                    value |-> [ name        |-> name,
                                size        |-> 8,
                                format      |-> format,
                                description |-> desc ]] >> ]

\* include_binary_asset!($vis $name, $path, $format, $desc): the static $name
\* holding the file's bytes and the static $name_INFO holding its AssetInfo,
\* whose size is $name.len().
include_binary_asset(files, name, path, format, desc) ==
    LET content == include_bytes(files, path) IN
    [ ok    |-> content.ok,
      items |-> << [ident |-> name, kind |-> "bytes", value |-> content.value],
                   [ident |-> InfoIdent(name), kind |-> "AssetInfo",
                    value |-> [ name        |-> name,
                                size        |-> Len(content.value),
                                format      |-> format,
                                description |-> desc ]] >> ]

\* include_text_asset!($vis $name, $path, $desc): the static $name holding the
\* file's text and the static $name_INFO holding its TextAssetInfo.
include_text_asset(files, name, path, desc) ==
    LET content == include_str(files, path) IN
    [ ok    |-> content.ok,
      items |-> << [ident |-> name, kind |-> "str", value |-> content.value],
                   [ident |-> InfoIdent(name), kind |-> "TextAssetInfo",
                    value |-> [ name        |-> name,
                                description |-> desc ]] >> ]

\* The $( include_binary_asset!(pub ...); )* repetition of the registry.
RECURSIVE ExpandBinary(_, _)
ExpandBinary(files, specs) ==
    IF Len(specs) = 0 THEN [ok |-> TRUE, items |-> <<>>]
    ELSE LET s == Head(specs)
             h == include_binary_asset(files, s.name, s.path, s.format, s.desc)
             t == ExpandBinary(files, Tail(specs))
         IN [ok |-> h.ok /\ t.ok, items |-> h.items \o t.items]

\* The $( include_text_asset!(pub ...); )* repetition of the registry.
RECURSIVE ExpandText(_, _)
ExpandText(files, specs) ==
    IF Len(specs) = 0 THEN [ok |-> TRUE, items |-> <<>>]
    ELSE LET s == Head(specs)
             h == include_text_asset(files, s.name, s.path, s.desc)
             t == ExpandText(files, Tail(specs))
         IN [ok |-> h.ok /\ t.ok, items |-> h.items \o t.items]

\* list_binary_assets that pushes the references in reverse.
list_binary_assets_Reversed(bin) ==
    [i \in 1..Len(bin) |-> InfoIdent(bin[Len(bin) + 1 - i].name)]

\* The body of list_binary_assets(): vec![ $( &$bin_name_INFO, )* ], references
\* to the metadata statics, a reference being the static's identifier.
list_binary_assets(bin) == [i \in 1..Len(bin) |-> InfoIdent(bin[i].name)]

\* list_text_assets that hands its entries out once: empty when called again.
list_text_assets_Drained(text) ==
    IF listed.text = {}
    THEN [i \in 1..Len(text) |-> InfoIdent(text[i].name)]
    ELSE <<>>

\* The body of list_text_assets(): vec![ $( &$text_name_INFO, )* ].
list_text_assets(text) == [i \in 1..Len(text) |-> InfoIdent(text[i].name)]

\* The two listing functions, items of the module like the statics.
ListingFns(bin, text) ==
    << [ident |-> "list_binary_assets", kind |-> "fn", value |-> list_binary_assets(bin)],
       [ident |-> "list_text_assets", kind |-> "fn", value |-> list_text_assets(text)] >>

\* create_asset_registry!($registry_name, [bin...], [text...]): everything is
\* written into the one module `pub mod $registry_name`.
create_asset_registry(files, bin, text) ==
    LET b == ExpandBinary(files, bin)
        t == ExpandText(files, text)
    IN [ok |-> b.ok /\ t.ok, items |-> b.items \o t.items \o ListingFns(bin, text)]

\* No check at all: a later definition silently shadows an earlier one.
DuplicateIdents_Unchecked(items) == FALSE

\* A namespace per type: only two items of the same kind collide.
DuplicateIdents_PerKind(items) ==
    \E i, j \in 1..Len(items) :
        i # j /\ items[i].ident = items[j].ident /\ items[i].kind = items[j].kind

\* rustc's E0428: statics and functions of one module share the value
\* namespace, so an identifier may be defined once, whatever its type.
DuplicateIdents(items) ==
    \E i, j \in 1..Len(items) : i # j /\ items[i].ident = items[j].ident

\* rustc's E0010: a const fn may not allocate; vec![] of nothing is Vec::new(),
\* vec![x, ...] allocates.  Toolchains differ in what they accept here.
ConstFnRejected(tc, bin, text) ==
    ~tc.constAlloc /\ (Len(bin) > 0 \/ Len(text) > 0)

\* The compile errors of one registry declaration.
CompileErrors(files, tc, bin, text) ==
    LET e == create_asset_registry(files, bin, text) IN
       (IF e.ok THEN {} ELSE {"include"})
    \cup (IF DuplicateIdents(e.items) THEN {"E0428"} ELSE {})
    \cup (IF ConstFnRejected(tc, bin, text) THEN {"E0010"} ELSE {})

\* The module of a registry that compiled: identifier -> item.
ModuleOf(items) ==
    [id \in {items[i].ident : i \in 1..Len(items)} |->
        items[CHOOSE i \in 1..Len(items) : items[i].ident = id]]

NoModule == [id \in {} |-> id]
NoRet == [kind |-> "none", of |-> "", val |-> <<>>]
NotListed == [bin |-> {}, text |-> {}]

(***************************************************************************)
(* The hand-written statics of `pub mod images`.                           *)
(***************************************************************************)
images_ICON_PNG == <<137, 80, 78, 71, 13, 10, 26, 10>>

images_ICON_PNG_INFO ==
    [ name |-> "ICON_PNG", size |-> Len(images_ICON_PNG), format |-> "PNG",
      description |-> "Application icon in PNG format" ]

\* b"<svg><!-- SVG content --></svg>"
images_LOGO_SVG ==
    << 60, 115, 118, 103, 62, 60, 33, 45, 45, 32, 83, 86, 71, 32, 99, 111,
       110, 116, 101, 110, 116, 32, 45, 45, 62, 60, 47, 115, 118, 103, 62 >>

images_LOGO_SVG_INFO ==
    [ name |-> "LOGO_SVG", size |-> Len(images_LOGO_SVG), format |-> "SVG",
      description |-> "Company logo in SVG format" ]

(***************************************************************************)
(* The registry: one declaration compiled once, then read.                 *)
(***************************************************************************)
UtilIdle ==
    /\ data = <<>>
    /\ mime_type = <<>>
    /\ ext = <<>>
    /\ out = NoRet

RegistryIdle ==
    /\ fs = [p \in Paths |-> [readable |-> FALSE, bytes |-> <<>>]]
    /\ toolchain = [constAlloc |-> FALSE]
    /\ phase = "source"
    /\ binSpecs = <<>>
    /\ textSpecs = <<>>
    /\ errors = {}
    /\ module = NoModule
    /\ ret = NoRet
    /\ listed = NotListed

Init ==
    /\ fs \in [Paths -> FileChoices]
    /\ toolchain \in [constAlloc : BOOLEAN]
    /\ phase = "source"
    /\ binSpecs = <<>>
    /\ textSpecs = <<>>
    /\ errors = {}
    /\ module = NoModule
    /\ ret = NoRet
    /\ listed = NotListed
    /\ UtilIdle

\* cargo build of a crate holding create_asset_registry!(reg, bin, text): the
\* module exists with every static initialised, or the build fails and nothing
\* exists.
Build(bin, text) ==
    /\ phase = "source"
    /\ binSpecs' = bin
    /\ textSpecs' = text
    /\ errors' = CompileErrors(fs, toolchain, bin, text)
    /\ phase' = IF errors' = {} THEN "built" ELSE "failed"
    /\ module' = IF errors' = {}
                 THEN ModuleOf(create_asset_registry(fs, bin, text).items)
                 ELSE NoModule
    /\ UNCHANGED <<fs, toolchain, ret, listed, utilVars>>

\* Reading a static by its path, reg::NAME or reg::NAME_INFO.
ReadStatic(id) ==
    IF id \in DOMAIN module
    THEN [kind |-> module[id].kind, of |-> id, val |-> module[id].value]
    ELSE [kind |-> "error", of |-> id, val |-> <<>>]

DeclaredNames == {binSpecs[i].name : i \in 1..Len(binSpecs)}
                 \cup {textSpecs[i].name : i \in 1..Len(textSpecs)}

\* let x = reg::NAME;
ReadContent(n) ==
    /\ phase = "built"
    /\ n \in DeclaredNames
    /\ ret' = ReadStatic(n)
    /\ UNCHANGED <<fs, toolchain, phase, binSpecs, textSpecs, errors, module, listed, utilVars>>

\* let x = &reg::NAME_INFO;
ReadInfo(n) ==
    /\ phase = "built"
    /\ n \in DeclaredNames
    /\ ret' = ReadStatic(InfoIdent(n))
    /\ UNCHANGED <<fs, toolchain, phase, binSpecs, textSpecs, errors, module, listed, utilVars>>

\* let v = reg::list_binary_assets();
ListBinaryAssets ==
    /\ phase = "built"
    /\ ret' = [kind |-> "list_binary", of |-> "list_binary_assets",
               val |-> list_binary_assets(binSpecs)]
    /\ listed' = [listed EXCEPT !.bin = @ \cup {ret'.val}]
    /\ UNCHANGED <<fs, toolchain, phase, binSpecs, textSpecs, errors, module, utilVars>>

\* let v = reg::list_text_assets();
ListTextAssets ==
    /\ phase = "built"
    /\ ret' = [kind |-> "list_text", of |-> "list_text_assets",
               val |-> list_text_assets(textSpecs)]
    /\ listed' = [listed EXCEPT !.text = @ \cup {ret'.val}]
    /\ UNCHANGED <<fs, toolchain, phase, binSpecs, textSpecs, errors, module, utilVars>>

Next ==
    \/ \E bin \in SeqsUpTo(BinSpec, MaxAssets) :
         \E text \in SeqsUpTo(TextSpec, MaxAssets - Len(bin)) : Build(bin, text)
    \/ \E n \in Names : ReadContent(n)
    \/ \E n \in Names : ReadInfo(n)
    \/ ListBinaryAssets
    \/ ListTextAssets

Spec == Init /\ [][Next]_vars

(***************************************************************************)
(* utils: Base64.                                                          *)
(***************************************************************************)
\* const CHARS: &[u8] = b"ABC...xyz0123456789+/"; CHARS[i] of the code is
\* CHARS[i + 1] here.
CHARS ==
    << "A", "B", "C", "D", "E", "F", "G", "H", "I", "J", "K", "L", "M", "N", "O", "P",
       "Q", "R", "S", "T", "U", "V", "W", "X", "Y", "Z", "a", "b", "c", "d", "e", "f",
       "g", "h", "i", "j", "k", "l", "m", "n", "o", "p", "q", "r", "s", "t", "u", "v",
       "w", "x", "y", "z", "0", "1", "2", "3", "4", "5", "6", "7", "8", "9", "+", "/" >>

\* input.chunks(3): slices of three bytes, the last one of one to three.
RECURSIVE chunks3(_)
chunks3(input) ==
    IF Len(input) = 0 THEN <<>>
    ELSE IF Len(input) <= 3 THEN <<input>>
    ELSE <<SubSeq(input, 1, 3)>> \o chunks3(SubSeq(input, 4, Len(input)))

\* Sextet with the mask one bit short: (b >> n) & 31.
Sextet_Mask31(b, n) == (b \div (2 ^ n)) % 32

\* (b >> n) & 63 on a u32.
Sextet(b, n) == (b \div (2 ^ n)) % 64

\* EncodeChunk that pushes the sextet of the zeroed buf instead of '='.
EncodeChunk_NoPad(chunk) ==
    LET buf == [i \in 1..3 |-> IF i <= Len(chunk) THEN chunk[i] ELSE 0]
        b   == buf[1] * 65536 + buf[2] * 256 + buf[3]
    IN << CHARS[((b \div 262144) % 64) + 1],
          CHARS[((b \div 4096) % 64) + 1],
          CHARS[((b \div 64) % 64) + 1],
          CHARS[(b % 64) + 1] >>

\* The body of the loop of base64_encode for one chunk: the chunk is copied
\* into a zeroed buf, b is the 24-bit group (the three shifted bytes occupy
\* disjoint bits, so | is +, and b < 2^24 fits the u32), and four characters
\* are pushed, the third and fourth being '=' when the chunk has no second /
\* third byte.
EncodeChunk(chunk) ==
    LET buf == [i \in 1..3 |-> IF i <= Len(chunk) THEN chunk[i] ELSE 0]
        b   == buf[1] * 65536 + buf[2] * 256 + buf[3]
    IN << CHARS[Sextet(b, 18) + 1],
          CHARS[Sextet(b, 12) + 1],
          IF Len(chunk) > 1 THEN CHARS[Sextet(b, 6) + 1] ELSE "=",
          IF Len(chunk) > 2 THEN CHARS[Sextet(b, 0) + 1] ELSE "=" >>

RECURSIVE EncodeChunks(_)
EncodeChunks(cs) ==
    IF Len(cs) = 0 THEN <<>> ELSE EncodeChunk(Head(cs)) \o EncodeChunks(Tail(cs))

\* fn base64_encode(input: &[u8]) -> String
base64_encode(input) == EncodeChunks(chunks3(input))

\* pub fn to_base64(data: &[u8]) -> String
to_base64(input) == base64_encode(input)

(***************************************************************************)
(* utils: MIME lookup and data URLs.                                       *)
(***************************************************************************)
UpperAscii ==
    <<"A", "B", "C", "D", "E", "F", "G", "H", "I", "J", "K", "L", "M", "N", "O", "P", "Q", "R", "S", "T", "U", "V", "W", "X", "Y", "Z">>
LowerAscii ==
    <<"a", "b", "c", "d", "e", "f", "g", "h", "i", "j", "k", "l", "m", "n", "o", "p", "q", "r", "s", "t", "u", "v", "w", "x", "y", "z">>

\* char::to_lowercase on the characters of the model: the ASCII letters and
\* U+00C9 (E with acute), whose lowercase is U+00E9; every other character of
\* the model has no case.
CharToLower(c) ==
    IF \E i \in 1..26 : UpperAscii[i] = c
    THEN LowerAscii[CHOOSE i \in 1..26 : UpperAscii[i] = c]
    ELSE IF c = "U+00C9" THEN "U+00E9"
    ELSE c

\* str::to_lowercase
to_lowercase(str) == [i \in 1..Len(str) |-> CharToLower(str[i])]

\* The match of mime_type_from_extension on an already lowercased string.
MimeMatch(l) ==
    IF l = <<"p", "n", "g">> THEN <<"i", "m", "a", "g", "e", "/", "p", "n", "g">>
    ELSE IF l = <<"j", "p", "g">> THEN <<"i", "m", "a", "g", "e", "/", "j", "p", "e", "g">>
    ELSE IF l = <<"j", "p", "e", "g">> THEN <<"i", "m", "a", "g", "e", "/", "j", "p", "e", "g">>
    ELSE IF l = <<"g", "i", "f">> THEN <<"i", "m", "a", "g", "e", "/", "g", "i", "f">>
    ELSE IF l = <<"s", "v", "g">> THEN <<"i", "m", "a", "g", "e", "/", "s", "v", "g", "+", "x", "m", "l">>
    ELSE IF l = <<"i", "c", "o">> THEN <<"i", "m", "a", "g", "e", "/", "x", "-", "i", "c", "o", "n">>
    ELSE IF l = <<"t", "x", "t">> THEN <<"t", "e", "x", "t", "/", "p", "l", "a", "i", "n">>
    ELSE IF l = <<"h", "t", "m", "l">> THEN <<"t", "e", "x", "t", "/", "h", "t", "m", "l">>
    ELSE IF l = <<"c", "s", "s">> THEN <<"t", "e", "x", "t", "/", "c", "s", "s">>
    ELSE IF l = <<"j", "s">> THEN <<"a", "p", "p", "l", "i", "c", "a", "t", "i", "o", "n", "/", "j", "a", "v", "a", "s", "c", "r", "i", "p", "t">>
    ELSE IF l = <<"j", "s", "o", "n">> THEN <<"a", "p", "p", "l", "i", "c", "a", "t", "i", "o", "n", "/", "j", "s", "o", "n">>
    ELSE <<"a", "p", "p", "l", "i", "c", "a", "t", "i", "o", "n", "/", "o", "c", "t", "e", "t", "-", "s", "t", "r", "e", "a", "m">>

\* The lookup without the to_lowercase() call.
mime_type_from_extension_CaseSensitive(e) == MimeMatch(e)

\* pub fn mime_type_from_extension(ext: &str) -> &'static str
mime_type_from_extension(e) == MimeMatch(to_lowercase(e))

\* create_data_url with the arguments of format! in the wrong order.
create_data_url_Swapped(bytes, mime) ==
    <<"d", "a", "t", "a", ":">> \o to_base64(bytes) \o <<";", "b", "a", "s", "e", "6", "4", ",">> \o mime

\* pub fn create_data_url(data: &[u8], mime_type: &str) -> String:
\* format!("data:{};base64,{}", mime_type, to_base64(data))
create_data_url(bytes, mime) ==
    <<"d", "a", "t", "a", ":">> \o mime \o <<";", "b", "a", "s", "e", "6", "4", ",">> \o to_base64(bytes)

(***************************************************************************)
(* Calling the utils: each specification draws the arguments of one        *)
(* function from a bounded set and applies the function to them.           *)
(***************************************************************************)
\* Bytes with all bits clear, all bits set, and the letters of "Hello".
Base64Bytes == {0, 72, 101, 108, 111, 255}

InitBase64 ==
    /\ RegistryIdle
    /\ data \in SeqsUpTo(Base64Bytes, MaxLen)
    /\ mime_type = <<>>
    /\ ext = <<>>
    /\ out = NoRet

\* let encoded = utils::to_base64(data);
CallToBase64 ==
    /\ out.kind = "none"
    /\ out' = [kind |-> "to_base64", of |-> "", val |-> to_base64(data)]
    /\ UNCHANGED <<regVars, data, mime_type, ext>>

NextBase64 == CallToBase64

SpecBase64 == InitBase64 /\ [][NextBase64]_vars

\* The letters of "test" and a byte with all bits set.
UrlBytes == {101, 115, 116, 255}

\* "text/plain", "image/svg+xml", the empty string, and a string of
\* characters a URL would have to escape.
MimeArgs ==
    { <<"t", "e", "x", "t", "/", "p", "l", "a", "i", "n">>,
      <<"i", "m", "a", "g", "e", "/", "s", "v", "g", "+", "x", "m", "l">>,
      <<>>,
      <<"a", " ", "%", ";", ",">> }

InitDataUrl ==
    /\ RegistryIdle
    /\ data \in SeqsUpTo(UrlBytes, MaxUrlLen)
    /\ mime_type \in MimeArgs
    /\ ext = <<>>
    /\ out = NoRet

\* let url = utils::create_data_url(data, mime_type);
CallCreateDataUrl ==
    /\ out.kind = "none"
    /\ out' = [kind |-> "create_data_url", of |-> "", val |-> create_data_url(data, mime_type)]
    /\ UNCHANGED <<regVars, data, mime_type, ext>>

NextDataUrl == CallCreateDataUrl

SpecDataUrl == InitDataUrl /\ [][NextDataUrl]_vars

\* The extensions of the table.
TableExts ==
    { <<"p", "n", "g">>,
      <<"j", "p", "g">>,
      <<"j", "p", "e", "g">>,
      <<"g", "i", "f">>,
      <<"s", "v", "g">>,
      <<"i", "c", "o">>,
      <<"t", "x", "t">>,
      <<"h", "t", "m", "l">>,
      <<"c", "s", "s">>,
      <<"j", "s">>,
      <<"j", "s", "o", "n">> }

CharToUpper(c) ==
    IF \E i \in 1..26 : LowerAscii[i] = c
    THEN UpperAscii[CHOOSE i \in 1..26 : LowerAscii[i] = c]
    ELSE IF c = "U+00E9" THEN "U+00C9"
    ELSE c

ToUpper(str) == [i \in 1..Len(str) |-> CharToUpper(str[i])]
Capitalise(str) == [i \in 1..Len(str) |-> IF i = 1 THEN CharToUpper(str[i]) ELSE str[i]]

ExtChars == {"j", "J", "s", "S", "x", ".", "U+00C9"}

\* The extensions the lookup is called with: the table's in lower case, in
\* upper case and capitalised, some that are in no table, and every string
\* over ExtChars up to the bound.
ExtArgs ==
    TableExts
    \cup {ToUpper(e) : e \in TableExts}
    \cup {Capitalise(e) : e \in TableExts}
    \cup { <<"u", "n", "k", "n", "o", "w", "n">>, <<"x", "y", "z">>, <<".", "p", "n", "g">>,
           <<"p", "n", "g", " ">>, <<"J", "P", "E", "G", "S">> }
    \cup SeqsUpTo(ExtChars, MaxExtLen)

InitMime ==
    /\ RegistryIdle
    /\ data = <<>>
    /\ mime_type = <<>>
    /\ ext \in ExtArgs
    /\ out = NoRet

\* let m = utils::mime_type_from_extension(ext);
CallMimeTypeFromExtension ==
    /\ out.kind = "none"
    /\ out' = [kind |-> "mime", of |-> "", val |-> mime_type_from_extension(ext)]
    /\ UNCHANGED <<regVars, data, mime_type, ext>>

NextMime == CallMimeTypeFromExtension

SpecMime == InitMime /\ [][NextMime]_vars

(***************************************************************************)
(* Base64 as RFC 4648 defines it, for the properties of to_base64.         *)
(***************************************************************************)
\* RFC 4648, table 1: the value of a character is its index here, minus one.
Rfc4648Alphabet ==
    UpperAscii \o LowerAscii
    \o <<"0", "1", "2", "3", "4", "5", "6", "7", "8", "9">> \o <<"+", "/">>

InAlphabet(c) == \E i \in 1..64 : Rfc4648Alphabet[i] = c
ValueOf(c) == (CHOOSE i \in 1..64 : Rfc4648Alphabet[i] = c) - 1

\* One group of four characters; padding is accepted in the last group only,
\* and only over zero bits.
DecodeGroup(g, last) ==
    IF \A i \in 1..4 : InAlphabet(g[i])
    THEN LET n == ValueOf(g[1]) * 262144 + ValueOf(g[2]) * 4096
                  + ValueOf(g[3]) * 64 + ValueOf(g[4])
         IN [ok |-> TRUE, bytes |-> <<n \div 65536, (n \div 256) % 256, n % 256>>]
    ELSE IF /\ last /\ g[4] = "="
            /\ \A i \in 1..3 : InAlphabet(g[i])
            /\ ValueOf(g[3]) % 4 = 0
    THEN LET n == ValueOf(g[1]) * 262144 + ValueOf(g[2]) * 4096 + ValueOf(g[3]) * 64
         IN [ok |-> TRUE, bytes |-> <<n \div 65536, (n \div 256) % 256>>]
    ELSE IF /\ last /\ g[3] = "=" /\ g[4] = "="
            /\ \A i \in 1..2 : InAlphabet(g[i])
            /\ ValueOf(g[2]) % 16 = 0
    THEN LET n == ValueOf(g[1]) * 262144 + ValueOf(g[2]) * 4096
         IN [ok |-> TRUE, bytes |-> <<n \div 65536>>]
    ELSE [ok |-> FALSE, bytes |-> <<>>]

RECURSIVE Rfc4648Decode(_)
Rfc4648Decode(str) ==
    IF Len(str) = 0 THEN [ok |-> TRUE, bytes |-> <<>>]
    ELSE IF Len(str) < 4 THEN [ok |-> FALSE, bytes |-> <<>>]
    ELSE LET h == DecodeGroup(SubSeq(str, 1, 4), Len(str) = 4)
             t == Rfc4648Decode(SubSeq(str, 5, Len(str)))
         IN [ok |-> h.ok /\ t.ok, bytes |-> h.bytes \o t.bytes]

\* Inputs next to `bytes`: one byte shorter, one zero byte longer, one byte
\* replaced, and everything of at most one byte.
Neighbours(bytes) ==
    (IF Len(bytes) > 0 THEN {SubSeq(bytes, 1, Len(bytes) - 1)} ELSE {})
    \cup {bytes \o <<0>>}
    \cup {[bytes EXCEPT ![i] = v] : i \in 1..Len(bytes), v \in {0, 255}}
    \cup SeqsUpTo(Base64Bytes, 1)

BytesHello == <<72, 101, 108, 108, 111>>
BytesTest == <<116, 101, 115, 116>>

\* C7: decoding to_base64(bytes) with an RFC 4648 decoder gives bytes back, for
\* every length; a non-empty input has a non-empty encoding, and no
\* neighbouring input has the same encoding.
C7_RoundTrip ==
    out.kind = "to_base64" =>
        /\ Rfc4648Decode(out.val).ok
        /\ Rfc4648Decode(out.val).bytes = data
        /\ (Len(data) > 0 => Len(out.val) > 0)
        /\ \A other \in Neighbours(data) :
               other # data => to_base64(other) # out.val

\* An input of more than one group whose last group is one byte has been
\* encoded and decodes to itself.
C7_Witness ==
    /\ out.kind = "to_base64"
    /\ Len(data) = 4
    /\ data[4] = 255
    /\ Rfc4648Decode(out.val).bytes = data

\* C8: the encoding of n bytes has 4 * ceil(n / 3) characters, all of the
\* alphabet A-Z a-z 0-9 + / except the '=' that end the last group: none when
\* n mod 3 = 0, one when n mod 3 = 2, two when n mod 3 = 1; "Hello" encodes to
\* "SGVsbG8=".
C8_ShapeAndPadding ==
    out.kind = "to_base64" =>
        LET n   == Len(data)
            o   == out.val
            pad == IF n % 3 = 0 THEN 0 ELSE IF n % 3 = 2 THEN 1 ELSE 2
        IN /\ Len(o) = 4 * ((n + 2) \div 3)
           /\ \A i \in 1..Len(o) :
                 IF i > Len(o) - pad THEN o[i] = "=" ELSE InAlphabet(o[i])
           /\ (data = BytesHello => o = <<"S", "G", "V", "s", "b", "G", "8", "=">>)

\* "Hello" has been encoded.
C8_Witness ==
    /\ out.kind = "to_base64"
    /\ data = BytesHello
    /\ out.val = <<"S", "G", "V", "s", "b", "G", "8", "=">>

(***************************************************************************)
(* The MIME table and the data URL, for the properties of the lookups.     *)
(***************************************************************************)
\* The fixed table, extension -> MIME type.
MimeTable ==
    { <<<<"p", "n", "g">>,
         <<"i", "m", "a", "g", "e", "/", "p", "n", "g">>>>,
      <<<<"j", "p", "g">>,
         <<"i", "m", "a", "g", "e", "/", "j", "p", "e", "g">>>>,
      <<<<"j", "p", "e", "g">>,
         <<"i", "m", "a", "g", "e", "/", "j", "p", "e", "g">>>>,
      <<<<"g", "i", "f">>,
         <<"i", "m", "a", "g", "e", "/", "g", "i", "f">>>>,
      <<<<"s", "v", "g">>,
         <<"i", "m", "a", "g", "e", "/", "s", "v", "g", "+", "x", "m", "l">>>>,
      <<<<"i", "c", "o">>,
         <<"i", "m", "a", "g", "e", "/", "x", "-", "i", "c", "o", "n">>>>,
      <<<<"t", "x", "t">>,
         <<"t", "e", "x", "t", "/", "p", "l", "a", "i", "n">>>>,
      <<<<"h", "t", "m", "l">>,
         <<"t", "e", "x", "t", "/", "h", "t", "m", "l">>>>,
      <<<<"c", "s", "s">>,
         <<"t", "e", "x", "t", "/", "c", "s", "s">>>>,
      <<<<"j", "s">>,
         <<"a", "p", "p", "l", "i", "c", "a", "t", "i", "o", "n", "/", "j", "a", "v", "a", "s", "c", "r", "i", "p", "t">>>>,
      <<<<"j", "s", "o", "n">>,
         <<"a", "p", "p", "l", "i", "c", "a", "t", "i", "o", "n", "/", "j", "s", "o", "n">>>> }

OctetStream == <<"a", "p", "p", "l", "i", "c", "a", "t", "i", "o", "n", "/", "o", "c", "t", "e", "t", "-", "s", "t", "r", "e", "a", "m">>

\* What the table gives for a lowercase string.
Expected(l) ==
    IF \E row \in MimeTable : row[1] = l
    THEN (CHOOSE row \in MimeTable : row[1] = l)[2]
    ELSE OctetStream

\* The spellings of `str` that differ from it in letter case only.
CaseVariants(str) == {str, ToUpper(str), to_lowercase(str), Capitalise(to_lowercase(str))}

\* C9: mime_type_from_extension returns, for every extension, the table's type
\* for the lowercased extension and application/octet-stream when that is not
\* in the table; extensions that differ only in case give the same result.
C9_MimeLookup ==
    out.kind = "mime" =>
        /\ out.val = Expected(to_lowercase(ext))
        /\ \A e \in CaseVariants(ext) : mime_type_from_extension(e) = out.val

\* "PNG" has been looked up and gave image/png.
C9_Witness ==
    /\ out.kind = "mime"
    /\ ext = <<"P", "N", "G">>
    /\ out.val = <<"i", "m", "a", "g", "e", "/", "p", "n", "g">>

\* C10: create_data_url(bytes, mime_type) is "data:", mime_type, ";base64,"
\* and to_base64(bytes), concatenated, nothing added or escaped; "test" with
\* "text/plain" gives "data:text/plain;base64,dGVzdA==".
C10_DataUrl ==
    out.kind = "create_data_url" =>
        /\ Len(out.val) = 5 + Len(mime_type) + 8 + Len(to_base64(data))
        /\ SubSeq(out.val, 1, 5) = <<"d", "a", "t", "a", ":">>
        /\ SubSeq(out.val, 6, 5 + Len(mime_type)) = mime_type
        /\ SubSeq(out.val, 6 + Len(mime_type), 13 + Len(mime_type)) = <<";", "b", "a", "s", "e", "6", "4", ",">>
        /\ SubSeq(out.val, 14 + Len(mime_type), Len(out.val)) = to_base64(data)
        /\ (data = BytesTest /\ mime_type = <<"t", "e", "x", "t", "/", "p", "l", "a", "i", "n">> =>
               out.val = <<"d", "a", "t", "a", ":", "t", "e", "x", "t", "/", "p", "l", "a", "i", "n", ";", "b", "a", "s", "e", "6", "4", ",", "d", "G", "V", "z", "d", "A", "=", "=">>)

\* The data URL of "test" as text/plain has been made.
C10_Witness ==
    /\ out.kind = "create_data_url"
    /\ data = BytesTest
    /\ mime_type = <<"t", "e", "x", "t", "/", "p", "l", "a", "i", "n">>
    /\ out.val = <<"d", "a", "t", "a", ":", "t", "e", "x", "t", "/", "p", "l", "a", "i", "n", ";", "b", "a", "s", "e", "6", "4", ",", "d", "G", "V", "z", "d", "A", "=", "=">>

(***************************************************************************)
(* The registry's properties.                                              *)
(***************************************************************************)
BinNames == [i \in 1..Len(binSpecs) |-> binSpecs[i].name]
TextNames == [i \in 1..Len(textSpecs) |-> textSpecs[i].name]

HasDuplicate(names) == \E i, j \in 1..Len(names) : i # j /\ names[i] = names[j]
SharedName == Range(BinNames) \cap Range(TextNames) # {}

\* Every source of the declaration can be resolved: the files are readable,
\* and those of text assets are UTF-8.
AllResolvable ==
    /\ \A i \in 1..Len(binSpecs) : fs[binSpecs[i].path].readable
    /\ \A i \in 1..Len(textSpecs) :
          fs[textSpecs[i].path].readable /\ Utf8Valid(fs[textSpecs[i].path].bytes)

\* C1: the size field of every binary asset's metadata equals the length of
\* the content bound under the same name: for the hand-written statics of
\* `images`, for every binary asset of a built registry, and for every
\* metadata record an accessor has handed out.
C1_SizeIsLength ==
    /\ images_ICON_PNG_INFO.size = Len(images_ICON_PNG)
    /\ images_LOGO_SVG_INFO.size = Len(images_LOGO_SVG)
    /\ phase = "built" =>
          \A i \in 1..Len(binSpecs) :
              module[InfoIdent(binSpecs[i].name)].value.size
                  = Len(module[binSpecs[i].name].value)
    /\ ret.kind = "AssetInfo" =>
          \E i \in 1..Len(binSpecs) :
              /\ ret.of = InfoIdent(binSpecs[i].name)
              /\ ret.val.size = Len(fs[binSpecs[i].path].bytes)

\* The metadata of a binary asset with three bytes of content has been read.
C1_Witness ==
    /\ phase = "built"
    /\ ret.kind = "AssetInfo"
    /\ ret.val.size = 3
    /\ Len(module[ret.val.name].value) = 3

\* The record the i-th binary / text spec declares.
BinRecord(i) ==
    [ name |-> binSpecs[i].name, size |-> Len(fs[binSpecs[i].path].bytes),
      format |-> binSpecs[i].format, description |-> binSpecs[i].desc ]
TextRecord(i) ==
    [ name |-> textSpecs[i].name, description |-> textSpecs[i].desc ]

\* C2: list_binary_assets() returns as many entries as there are binary specs
\* and list_text_assets() as many as there are text specs, the i-th entry being
\* the record of the i-th spec, named as that spec declares.
C2_ListingsFollowSpecs ==
    /\ ret.kind = "list_binary" =>
          /\ Len(ret.val) = Len(binSpecs)
          /\ \A i \in 1..Len(ret.val) :
                /\ ret.val[i] \in DOMAIN module
                /\ module[ret.val[i]].kind = "AssetInfo"
                /\ module[ret.val[i]].value = BinRecord(i)
    /\ ret.kind = "list_text" =>
          /\ Len(ret.val) = Len(textSpecs)
          /\ \A i \in 1..Len(ret.val) :
                /\ ret.val[i] \in DOMAIN module
                /\ module[ret.val[i]].kind = "TextAssetInfo"
                /\ module[ret.val[i]].value = TextRecord(i)

\* A registry of two binary assets with different formats has been listed.
C2_Witness ==
    /\ ret.kind = "list_binary"
    /\ Len(ret.val) = 2
    /\ module[ret.val[1]].value.format # module[ret.val[2]].value.format

\* C3: a declaration with two binary assets of one name, or two text assets of
\* one name, fails to build (with E0428); no built registry has two records of
\* the same kind with the same name.
C3_DuplicateNamesFail ==
    /\ (phase # "source" /\ (HasDuplicate(BinNames) \/ HasDuplicate(TextNames))) =>
          (phase = "failed" /\ "E0428" \in errors)
    /\ phase = "built" =>
          /\ ~HasDuplicate(BinNames)
          /\ ~HasDuplicate(TextNames)
          /\ \A i, j \in 1..Len(binSpecs) :
                module[InfoIdent(binSpecs[i].name)].value.name
                    = module[InfoIdent(binSpecs[j].name)].value.name => i = j

\* Two binary assets of one name were declared, everything else being in
\* order, and the build failed with the duplicate-definition error alone.
C3_Witness ==
    /\ phase = "failed"
    /\ Len(binSpecs) = 2
    /\ binSpecs[1].name = binSpecs[2].name
    /\ errors = {"E0428"}

\* C4 as stated: a declaration whose binary and text lists share a name, each
\* list free of duplicates and every source resolvable, builds, and both
\* assets and both records can be retrieved.
C4_IndependentNamespaces ==
    (/\ phase # "source"
     /\ SharedName
     /\ ~HasDuplicate(BinNames) /\ ~HasDuplicate(TextNames)
     /\ AllResolvable
     /\ toolchain.constAlloc)
    => /\ phase = "built"
       /\ \A n \in DeclaredNames : n \in DOMAIN module /\ InfoIdent(n) \in DOMAIN module

\* C4, amended: the binary and the text assets of a registry are statics of
\* one module and share its namespace: a declaration whose binary and text
\* lists share a name fails to build (E0428); in every built registry no name
\* is in both lists, and the content and the record of every declared asset
\* can be retrieved, with the type its list gives it.
C4_SharedNamespace ==
    /\ (phase # "source" /\ SharedName) => (phase = "failed" /\ "E0428" \in errors)
    /\ phase = "built" =>
          /\ ~SharedName
          /\ \A i \in 1..Len(binSpecs) :
                /\ ReadStatic(binSpecs[i].name).kind = "bytes"
                /\ ReadStatic(InfoIdent(binSpecs[i].name)).kind = "AssetInfo"
          /\ \A i \in 1..Len(textSpecs) :
                /\ ReadStatic(textSpecs[i].name).kind = "str"
                /\ ReadStatic(InfoIdent(textSpecs[i].name)).kind = "TextAssetInfo"

\* One binary and one text asset of the same name were declared, everything
\* else being in order, and the build failed with E0428 alone.
C4_Witness ==
    /\ phase = "failed"
    /\ Len(binSpecs) = 1 /\ Len(textSpecs) = 1
    /\ binSpecs[1].name = textSpecs[1].name
    /\ AllResolvable
    /\ errors = {"E0428"}

\* C5: when a source cannot be resolved the build fails and nothing is bound;
\* in a built registry every source was resolvable and every content is its
\* source's bytes, unchanged.
C5_NoFallbackContent ==
    /\ (phase # "source" /\ ~AllResolvable) =>
          (phase = "failed" /\ "include" \in errors /\ module = NoModule)
    /\ phase = "built" =>
          /\ AllResolvable
          /\ \A i \in 1..Len(binSpecs) :
                module[binSpecs[i].name].value = fs[binSpecs[i].path].bytes
          /\ \A i \in 1..Len(textSpecs) :
                module[textSpecs[i].name].value = fs[textSpecs[i].path].bytes
    /\ ret.kind \in {"bytes", "str"} =>
          \E p \in Paths : fs[p].readable /\ ret.val = fs[p].bytes

\* A text asset was declared over a file that is no UTF-8 text, beside a
\* binary asset whose file is fine, and the build failed for that alone.
C5_Witness ==
    /\ phase = "failed"
    /\ errors = {"include"}
    /\ Len(binSpecs) = 1 /\ Len(textSpecs) = 1
    /\ fs[binSpecs[1].path].readable
    /\ fs[textSpecs[1].path].readable
    /\ ~Utf8Valid(fs[textSpecs[1].path].bytes)

\* Every reference of a listing designates a metadata static of the module.
ListingRefsValid ==
    /\ ret.kind = "list_binary" =>
          \A i \in 1..Len(ret.val) :
              ret.val[i] \in DOMAIN module /\ module[ret.val[i]].kind = "AssetInfo"
    /\ ret.kind = "list_text" =>
          \A i \in 1..Len(ret.val) :
              ret.val[i] \in DOMAIN module /\ module[ret.val[i]].kind = "TextAssetInfo"

\* C6: once a registry is built, no accessor call changes a content or a
\* record or fails; each listing function returns the same sequence at every
\* call, and its entries are references to the statics made at build time.
C6_AccessorsArePure ==
    /\ [][phase = "built" =>
            /\ phase' = "built"
            /\ module' = module
            /\ <<binSpecs', textSpecs', fs'>> = <<binSpecs, textSpecs, fs>>
            /\ ret'.kind # "error"]_vars
    /\ [](/\ Cardinality(listed.bin) <= 1
          /\ Cardinality(listed.text) <= 1
          /\ ListingRefsValid)

\* Both listing functions have returned a non-empty sequence, and a content
\* has been read after that.
C6_Witness ==
    /\ phase = "built"
    /\ \E l \in listed.bin : Len(l) > 0
    /\ \E l \in listed.text : Len(l) > 0
    /\ ret.kind = "str"

====
